---- MODULE Spec2Model ----
(***************************************************************************)
(* Model of generate.py (svg-mail-merge): a CSV of merge rows is filled    *)
(* into copies of an SVG template, each filled copy is rendered to a       *)
(* one-page PDF by inkscape and the pages are concatenated by gs.          *)
(*                                                                         *)
(* An SVG tree is a sequence of elements in document order; each element   *)
(* records its tag, its class attribute, the index of its parent element   *)
(* (0 for a child of the root), whether it carries a transform attribute,  *)
(* whether it has been wrapped in a <g transform=...>, and its content.    *)
(* Content is a pair: <<0, 0>> is the template's original content and      *)
(* <<i, j>> is the value of column j of the i-th data record of the CSV,   *)
(* so every CSV cell is distinguishable from every other.                  *)
(***************************************************************************)
EXTENDS Integers, Sequences, FiniteSets, TLC

\* Bounds of the inputs: template blocks, CSV data records.
MaxBlocks == 2
MaxRows == 3

VARIABLES
    force,        \* args.force
    isatty,       \* what os.isatty(sys.stdin.fileno()) returned, once called
    answer,       \* main: answer (NotAsked until input() has returned)
    output,       \* what is at args.output_pdf_file
    class_names,  \* MergeCsvReader._class_names
    class_types,  \* MergeCsvReader._class_types
    records,      \* the data records of the CSV file, as written
    csv,          \* MergeCsvReader._csv: the records not read yet
    master_tree,  \* generate_page_svg_trees: master_tree
    page_tree,    \* the tree the generator is suspended on (<<>> if none)
    count,        \* generate_page_svg_trees: count (-1 before the first pass)
    go_again,     \* generate_page_svg_trees: go_again
    pass_start,   \* what csv was when the last call of replace began
    yielded,      \* count of each page the generator has yielded
    pdfs,         \* generate_pdf: pdfs
    tempdir,      \* the TemporaryDirectory of generate_pdf
    overwrite,    \* generate_pdf: overwrite
    concat_args,  \* the input lists concatenate_pdfs was called with
    pc,           \* position of the process
    status,       \* process exit status (-1 while running)
    err           \* the exception that ended the process

vars == <<force, isatty, answer, output, class_names, class_types, records, csv,
          master_tree, page_tree, count, go_again, pass_start, yielded, pdfs,
          tempdir, overwrite, concat_args, pc, status, err>>

Min(a, b) == IF a < b THEN a ELSE b

CeilDiv(a, b) == (a + b - 1) \div b

Original == <<0, 0>>

----------------------------------------------------------------------------
(* Inputs *)

Element(tag, class, parent, transform) ==
    [tag |-> tag, class |-> class, parent |-> parent, transform |-> transform,
     wrapped |-> FALSE, text |-> Original]

\* The elements of the k-th template block, the block element first; base is
\* the index of the block element in the tree.
BlockElements(k, base) ==
    << Element("g", "template", 0, FALSE),
       Element("tspan", "name", base, FALSE),
       Element("rect", "code", base, k % 2 = 1),
       Element("tspan", "code", base, FALSE),
       Element("tspan", "other", base, FALSE) >>

BlockSize == Len(BlockElements(1, 0))

RECURSIVE TemplateBlocks(_, _)
TemplateBlocks(k, n) ==
    IF k > n THEN <<>>
    ELSE BlockElements(k, 2 + BlockSize * (k - 1)) \o TemplateBlocks(k + 1, n)

\* A template file with n template blocks, and one placeholder-like element
\* outside every block.
Template(n) == << Element("tspan", "name", 0, FALSE) >> \o TemplateBlocks(1, n)

\* The two header rows of the CSV file: field names, then field types. The
\* type row may be shorter than the name row and may hold an unknown type.
Headers ==
    { [names |-> <<"name", "code">>, types |-> <<"tspan", "qr">>],
      [names |-> <<"name", "other">>, types |-> <<"tspan", "tspan">>],
      [names |-> <<"name", "code">>, types |-> <<"tspan">>],
      [names |-> <<"name", "code">>, types |-> <<"tspan", "bogus">>] }

\* Field counts of a data record: a blank line, one field short of the
\* header, as many as the header, one more.
RecordLens == 0..(Len(<<"name", "code">>) + 1)

\* A CSV body of n records, lens[i] fields in the i-th.
Records(n, lens) == [i \in 1..n |-> [j \in 1..lens[i] |-> <<i, j>>]]

RecordLists ==
    UNION { { Records(n, lens) : lens \in [1..n -> RecordLens] } : n \in 0..MaxRows }

NotAsked == "<not asked>"

Answers == { "y", "Yes", "n", "" }

str_lower(s) ==
    CASE s = "Y" -> "y"
      [] s \in {"Yes", "YES", "yEs"} -> "yes"
      [] s = "N" -> "n"
      [] OTHER -> s

----------------------------------------------------------------------------
(* MergeCsvReader *)

\* __next__: zip stops at the shortest of the three rows.
MergeCsvReader_next(data_row) ==
    [j \in 1..Min(Min(Len(class_names), Len(class_types)), Len(data_row)) |->
        [class_name |-> class_names[j], class_type |-> class_types[j],
         data |-> data_row[j]]]

----------------------------------------------------------------------------
(* replace and its helpers *)

RECURSIVE IsDescendant(_, _, _)
IsDescendant(root, k, t) ==
    /\ root[k].parent # 0
    /\ \/ root[k].parent = t
       \/ IsDescendant(root, root[k].parent, t)

\* Mutant: every tspan of the block is overwritten, whatever its class.
replace_tspan_any_class(root, t, class_name, data) ==
    [k \in 1..Len(root) |->
        IF IsDescendant(root, k, t) /\ root[k].tag = "tspan"
        THEN [root[k] EXCEPT !.text = data]
        ELSE root[k]]

replace_tspan(root, t, class_name, data) ==
    [k \in 1..Len(root) |->
        IF /\ IsDescendant(root, k, t)
           /\ root[k].tag = "tspan"
           /\ root[k].class = class_name
        THEN [root[k] EXCEPT !.text = data]
        ELSE root[k]]

\* The rect becomes the QR <svg>, which takes the rect's class and geometry
\* and is wrapped in a <g> when the rect had a transform.
replace_qr(root, t, class_name, data) ==
    [k \in 1..Len(root) |->
        IF /\ IsDescendant(root, k, t)
           /\ root[k].tag = "rect"
           /\ root[k].class = class_name
        THEN [root[k] EXCEPT !.tag = "svg", !.wrapped = root[k].transform,
                             !.text = data]
        ELSE root[k]]

\* The inner loop of replace: the fields of one data row, in order. An
\* unknown class_type is a KeyError.
RECURSIVE ApplyRow(_, _, _, _)
ApplyRow(root, t, data_row, j) ==
    IF j > Len(data_row) THEN [root |-> root, error |-> FALSE]
    ELSE LET f == data_row[j] IN
         IF f.class_type = "tspan"
         THEN ApplyRow(replace_tspan(root, t, f.class_name, f.data), t, data_row, j + 1)
         ELSE IF f.class_type = "qr"
         THEN ApplyRow(replace_qr(root, t, f.class_name, f.data), t, data_row, j + 1)
         ELSE [root |-> root, error |-> TRUE]

\* root.findall(".//*[@class='template']"): indices in document order.
findall_template(root) ==
    SelectSeq([k \in 1..Len(root) |-> k], LAMBDA k : root[k].class = "template")

RECURSIVE replace_loop(_, _, _, _)
replace_loop(root, it, templates, n) ==
    IF templates = <<>>
    THEN [count |-> n, go_again |-> TRUE, root |-> root, csv |-> it, error |-> FALSE]
    ELSE IF it = <<>>
    THEN [count |-> n, go_again |-> FALSE, root |-> root, csv |-> it, error |-> FALSE]
    ELSE LET r == ApplyRow(root, Head(templates), MergeCsvReader_next(Head(it)), 1) IN
         IF r.error
         THEN [count |-> n + 1, go_again |-> TRUE, root |-> r.root, csv |-> Tail(it),
               error |-> TRUE]
         ELSE replace_loop(r.root, Tail(it), Tail(templates), n + 1)

\* Mutant: a row is read before the blocks are looked at.
replace_reads_first(root, it) ==
    replace_loop(root, IF it = <<>> THEN it ELSE Tail(it), findall_template(root), 0)

\* Mutant: go_again is decided by reading one row ahead, which is then lost.
replace_reads_ahead(root, it) ==
    LET r == replace_loop(root, it, findall_template(root), 0) IN
    IF r.error \/ ~r.go_again \/ r.csv = <<>> THEN r
    ELSE [r EXCEPT !.csv = Tail(r.csv)]

replace(root, it) == replace_loop(root, it, findall_template(root), 0)

----------------------------------------------------------------------------
(* The process *)

Running == pc # "exited"

InGeneratePdf == pc \in {"gen", "render", "resume", "create", "concat"}

Exists == output # "absent"

\* Mutant: the directory is left behind when the block is left by an exception.
TemporaryDirectory_exit_leaks(exc) == IF exc THEN "live" ELSE "removed"

\* __exit__ of `with tempfile.TemporaryDirectory()`.
TemporaryDirectory_exit(exc) == "removed"

\* An uncaught exception raised inside generate_pdf.
Raise(e) ==
    /\ pc' = "exited"
    /\ status' = 1
    /\ err' = e
    /\ tempdir' = TemporaryDirectory_exit(TRUE)

Init ==
    /\ force \in BOOLEAN
    /\ isatty = "not called"
    /\ answer = NotAsked
    /\ output \in {"absent", "old"}
    /\ \E h \in Headers : class_names = h.names /\ class_types = h.types
    /\ records \in RecordLists
    /\ csv = records
    /\ master_tree \in { Template(n) : n \in 0..MaxBlocks }
    /\ page_tree = <<>>
    /\ count = -1
    /\ go_again = TRUE
    /\ pass_start = records
    /\ yielded = <<>>
    /\ pdfs = <<>>
    /\ tempdir = "none"
    /\ overwrite = FALSE
    /\ concat_args = <<>>
    /\ pc = "main"
    /\ status = -1
    /\ err = "none"

\* Mutant: any answer is taken as consent.
Consents_any(a) == TRUE

\* `answer.lower() in ['y', 'yes']`
Consents(a) == str_lower(a) \in {"y", "yes"}

\* main: --force given, or nothing at the output path.
MainProceed ==
    /\ pc = "main"
    /\ ~(~force /\ Exists)
    /\ pc' = "process_csv"
    /\ UNCHANGED <<force, isatty, answer, output, class_names, class_types, records, csv,
                   master_tree, page_tree, count, go_again, pass_start, yielded,
                   pdfs, tempdir, overwrite, concat_args, status, err>>

\* main: the output exists, no --force, stdin is a terminal.
MainPrompt ==
    /\ pc = "main"
    /\ ~force /\ Exists
    /\ isatty' = "true"
    /\ \E a \in Answers :
          /\ answer' = a
          /\ IF Consents(a)
             THEN /\ force' = TRUE
                  /\ pc' = "process_csv"
                  /\ UNCHANGED <<status, err>>
             ELSE /\ pc' = "exited"
                  /\ status' = 1
                  /\ err' = "SystemExit"
                  /\ UNCHANGED force
    /\ UNCHANGED <<output, class_names, class_types, records, csv,
                   master_tree, page_tree, count, go_again, pass_start, yielded,
                   pdfs, tempdir, overwrite, concat_args>>

\* main: the output exists, no --force, stdin is not a terminal.
MainRefuse ==
    /\ pc = "main"
    /\ ~force /\ Exists
    /\ isatty' = "false"
    /\ pc' = "exited"
    /\ status' = 1
    /\ err' = "SystemExit"
    /\ UNCHANGED <<force, answer, output, class_names, class_types, records, csv,
                   master_tree, page_tree, count, go_again, pass_start, yielded,
                   pdfs, tempdir, overwrite, concat_args>>

\* process_csv, and generate_pdf up to the first next() of the generator.
ProcessCsv ==
    /\ pc = "process_csv"
    /\ overwrite' = force
    /\ tempdir' = "live"
    /\ pdfs' = <<>>
    /\ pc' = "gen"
    /\ UNCHANGED <<force, isatty, answer, output, class_names, class_types, records, csv,
                   master_tree, page_tree, count, go_again, pass_start, yielded,
                   concat_args, status, err>>

\* Mutant: a page is yielded after every pass.
ShouldYield_always(n) == TRUE

\* `if count:`
ShouldYield(n) == n # 0

\* One turn of the `while True` loop of generate_page_svg_trees, up to the
\* yield, the break or the next turn.
GenPass ==
    /\ pc = "gen"
    /\ LET r == replace(master_tree, csv) IN
       /\ csv' = r.csv
       /\ pass_start' = csv
       /\ IF r.error
          THEN /\ Raise("KeyError")
               /\ UNCHANGED <<page_tree, count, go_again, yielded>>
          ELSE /\ count' = r.count
               /\ go_again' = r.go_again
               /\ IF ShouldYield(r.count)
                  THEN /\ page_tree' = r.root
                       /\ yielded' = Append(yielded, r.count)
                       /\ pc' = "render"
                  ELSE /\ pc' = IF r.go_again THEN "gen" ELSE "create"
                       /\ UNCHANGED <<page_tree, yielded>>
               /\ UNCHANGED <<status, err, tempdir>>
    /\ UNCHANGED <<force, isatty, answer, output, class_names, class_types, records,
                   master_tree, pdfs, overwrite, concat_args>>

\* Mutant: the new artifact is put in front.
pdfs_prepend(list, pdf) == <<pdf>> \o list

\* pdfs.append(...)
pdfs_append(list, pdf) == Append(list, pdf)

\* svg_tree_to_pdf: inkscape exits 0; the artifact is the rendered tree.
RenderOk ==
    /\ pc = "render"
    /\ pdfs' = pdfs_append(pdfs, [pdf |-> page_tree])
    /\ pc' = "resume"
    /\ UNCHANGED <<force, isatty, answer, output, class_names, class_types, records, csv,
                   master_tree, page_tree, count, go_again, pass_start, yielded,
                   tempdir, overwrite, concat_args, status, err>>

\* Mutant: the failure is noted and the loop goes on.
RenderFail_swallowed ==
    /\ pc = "render"
    /\ err' = "RenderError"
    /\ pc' = "resume"
    /\ UNCHANGED <<force, isatty, answer, output, class_names, class_types, records, csv,
                   master_tree, page_tree, count, go_again, pass_start, yielded,
                   pdfs, tempdir, overwrite, concat_args, status>>

\* svg_tree_to_pdf: inkscape exits nonzero, check_call raises.
RenderFail ==
    /\ pc = "render"
    /\ Raise("RenderError")
    /\ UNCHANGED <<force, isatty, answer, output, class_names, class_types, records, csv,
                   master_tree, page_tree, count, go_again, pass_start, yielded,
                   pdfs, overwrite, concat_args>>

\* The generator is resumed after its yield: `if not go_again: break`.
GenResume ==
    /\ pc = "resume"
    /\ pc' = IF go_again THEN "gen" ELSE "create"
    /\ page_tree' = <<>>
    /\ UNCHANGED <<force, isatty, answer, output, class_names, class_types, records, csv,
                   master_tree, count, go_again, pass_start, yielded, pdfs,
                   tempdir, overwrite, concat_args, status, err>>

\* `if not overwrite: open(pdf_output_path, 'x').close()`
Create ==
    /\ pc = "create"
    /\ IF overwrite
       THEN /\ pc' = "concat"
            /\ UNCHANGED <<output, status, err, tempdir>>
       ELSE IF Exists
       THEN /\ Raise("FileExistsError")
            /\ UNCHANGED output
       ELSE /\ output' = "empty"
            /\ pc' = "concat"
            /\ UNCHANGED <<status, err, tempdir>>
    /\ UNCHANGED <<force, isatty, answer, class_names, class_types, records, csv,
                   master_tree, page_tree, count, go_again, pass_start, yielded,
                   pdfs, overwrite, concat_args>>

\* concatenate_pdfs: gs exits 0 and has written the output.
ConcatOk ==
    /\ pc = "concat"
    /\ concat_args' = Append(concat_args, pdfs)
    /\ output' = "merged"
    /\ tempdir' = TemporaryDirectory_exit(FALSE)
    /\ pc' = "exited"
    /\ status' = 0
    /\ UNCHANGED <<force, isatty, answer, class_names, class_types, records, csv,
                   master_tree, page_tree, count, go_again, pass_start, yielded,
                   pdfs, overwrite, err>>

\* concatenate_pdfs: gs exits nonzero; what it left at the output path is
\* not determined by the program.
ConcatFail ==
    /\ pc = "concat"
    /\ concat_args' = Append(concat_args, pdfs)
    /\ output' \in {output, "partial"}
    /\ Raise("ConcatError")
    /\ UNCHANGED <<force, isatty, answer, class_names, class_types, records, csv,
                   master_tree, page_tree, count, go_again, pass_start, yielded,
                   pdfs, overwrite>>

\* Another process creates a file at the output path while this one runs.
FileAppears ==
    /\ Running
    /\ pc # "main"
    /\ output = "absent"
    /\ output' = "foreign"
    /\ UNCHANGED <<force, isatty, answer, class_names, class_types, records, csv,
                   master_tree, page_tree, count, go_again, pass_start, yielded,
                   pdfs, tempdir, overwrite, concat_args, pc, status, err>>

Next ==
    \/ MainProceed
    \/ MainPrompt
    \/ MainRefuse
    \/ ProcessCsv
    \/ GenPass
    \/ RenderOk
    \/ RenderFail
    \/ GenResume
    \/ Create
    \/ ConcatOk
    \/ ConcatFail
    \/ FileAppears

Spec == Init /\ [][Next]_vars

----------------------------------------------------------------------------
(* Quantities the properties are stated in *)

\* B: template blocks of the template; R: data records of the CSV.
B == Len(findall_template(master_tree))
R == Len(records)

\* The generator ran to its end (it was not left by an exception of its own
\* or abandoned by a failed render).
GeneratorFinished ==
    \/ pc \in {"create", "concat"}
    \/ pc = "exited" /\ err \in {"none", "FileExistsError", "ConcatError"}

\* Position of block element t among the template blocks, in document order.
BlockNo(t) == CHOOSE b \in 1..B : findall_template(master_tree)[b] = t

\* The columns of record i that reach a Data Row and bind element e.
Binding(i, e) ==
    { j \in 1..Min(Min(Len(class_names), Len(class_types)), Len(records[i])) :
        /\ class_names[j] = e.class
        /\ \/ class_types[j] = "tspan" /\ e.tag = "tspan"
           \/ class_types[j] = "qr" /\ e.tag = "rect" }

\* What record i puts into template element e.
RowText(i, e) ==
    IF Binding(i, e) = {} THEN Original
    ELSE <<i, CHOOSE j \in Binding(i, e) : \A h \in Binding(i, e) : h <= j>>

\* The p-th tree the generator yielded.
TreeAt(p) == IF p <= Len(pdfs) THEN pdfs[p].pdf ELSE page_tree

RECURSIVE Sum(_)
Sum(s) == IF s = <<>> THEN 0 ELSE Head(s) + Sum(Tail(s))

ProgramLeftOutputAlone == output \in {"absent", "old", "foreign"}

----------------------------------------------------------------------------
(* Properties *)

\* C1: with B >= 1 blocks and R records a generator that runs to its end has
\* yielded exactly ceil(R / B) pages, none of them with zero filled blocks
\* (so none for R = 0 and no trailing blank page when B divides R).
C1_PageCount ==
    (GeneratorFinished /\ B >= 1) =>
        /\ Len(yielded) = CeilDiv(R, B)
        /\ \A p \in 1..Len(yielded) : yielded[p] > 0

C1_Witness ==
    /\ GeneratorFinished
    /\ B = 2 /\ R = 2
    /\ yielded = <<2>>

\* C2: the list handed to concatenate_pdfs holds the pages in generation
\* order, record i (1-based) is what fills block ((i-1) mod B) + 1 of page
\* ((i-1) div B) + 1, every filled element shows the record of its own page
\* and block, and no record is left unread.
C2_RowOrder ==
    (concat_args # <<>> /\ B >= 1) =>
        LET args == concat_args[1] IN
        /\ Len(concat_args) = 1
        /\ Len(args) = CeilDiv(R, B)
        /\ csv = <<>>
        /\ \A i \in 1..R : \A k \in 1..Len(master_tree) :
              (/\ master_tree[k].parent # 0
               /\ BlockNo(master_tree[k].parent) = ((i - 1) % B) + 1)
              => args[((i - 1) \div B) + 1].pdf[k].text = RowText(i, master_tree[k])
        /\ \A p \in 1..Len(args) : \A k \in 1..Len(master_tree) :
              args[p].pdf[k].text # Original
              => args[p].pdf[k].text[1]
                    = (p - 1) * B + BlockNo(master_tree[k].parent)

C2_Witness ==
    /\ concat_args # <<>>
    /\ B = 2 /\ R = 3
    /\ Len(concat_args[1]) = 2
    /\ concat_args[1][1].pdf[3].text = <<1, 1>>
    /\ concat_args[1][1].pdf[8].text = <<2, 1>>
    /\ concat_args[1][2].pdf[3].text = <<3, 1>>

C4_FieldCountsChecked ==
    \A i \in 1..(R - Len(csv)) :
        /\ Len(records[i]) = Len(class_names)
        /\ Len(class_types) = Len(class_names)

\* C5: a template without template blocks reads no record and yields no page.
C5_NoBlocks ==
    (B = 0) =>
        /\ csv = records
        /\ yielded = <<>>
        /\ pdfs = <<>>
        /\ pc # "render"

C5_Witness == B = 0 /\ R > 0 /\ count = 0 /\ pc = "gen"

\* C6: a call of replace that returns has filled min(B, records left when it
\* began) blocks, what it did not read is still in the source in order, and
\* over the passes no record is lost.
C6_PassCount ==
    (count >= 0 /\ err # "KeyError") =>
        /\ count = Min(B, Len(pass_start))
        /\ csv = SubSeq(pass_start, count + 1, Len(pass_start))
        /\ csv = SubSeq(records, R - Len(csv) + 1, R)
        /\ Sum(yielded) = R - Len(csv)

C6_Witness ==
    /\ B = 2 /\ R = 3
    /\ yielded = <<2, 1>>
    /\ count = 1 /\ Len(pass_start) = 1 /\ csv = <<>>

\* C7: after a render failure the process has exited, concatenate_pdfs has
\* not been and is not called, no record is read, no page is filled or
\* rendered, and the output file is neither created nor modified.
C7_RenderFailureFatal ==
    /\ [](err = "RenderError" =>
            /\ pc = "exited" /\ status = 1
            /\ concat_args = <<>>
            /\ ProgramLeftOutputAlone)
    /\ [][err = "RenderError" =>
            /\ csv' = csv
            /\ yielded' = yielded
            /\ pdfs' = pdfs
            /\ concat_args' = concat_args
            /\ output' = output]_vars

C7_Witness ==
    /\ err = "RenderError"
    /\ Len(pdfs) = 1 /\ Len(yielded) = 2
    /\ csv # <<>>

\* C8: the temporary directory exists while generate_pdf runs and is gone
\* once the process has left generate_pdf, however it left.
C8_TempdirRemoved ==
    /\ InGeneratePdf => tempdir = "live"
    /\ pc = "exited" => tempdir # "live"
    /\ (pc = "exited" /\ err # "SystemExit") => tempdir = "removed"

C8_Witness == pc = "exited" /\ err = "RenderError" /\ tempdir = "removed"

\* C9: an element of a yielded page differs from the template only if it is
\* inside a block that was filled on that page and a column of the record
\* that filled the block has the element's class and the type of its tag;
\* it keeps its class, parent and transform.
C9_Frame ==
    \A p \in 1..Len(yielded) : \A k \in 1..Len(master_tree) :
        LET e == master_tree[k]
            f == TreeAt(p)[k]
        IN /\ f.class = e.class /\ f.parent = e.parent /\ f.transform = e.transform
           /\ f # e =>
                /\ e.parent # 0
                /\ BlockNo(e.parent) <= yielded[p]
                /\ Binding((p - 1) * B + BlockNo(e.parent), e) # {}

C9_Witness ==
    /\ pc = "render" /\ B = 2 /\ count = 1
    /\ class_names = <<"name", "code">>
    /\ page_tree[3].text # Original
    /\ page_tree[6] = master_tree[6]
    /\ page_tree[8] = master_tree[8]

\* C10: a pass that fills zero blocks ends the loop: the generator is never
\* back at the top of its loop with count = 0.
C10_StopsAfterEmptyPass == ~(pc = "gen" /\ count = 0)

====
